---- MODULE Spec2Model ----
(***************************************************************************)
(* Meridian / Bloomberg-Lite ingestion pipeline.                           *)
(*                                                                         *)
(* The persistent store (src/src/storage/database.py) is three tables:     *)
(* observations, stories and metrics.  Every storage function opens its    *)
(* own connection, runs one statement and commits (or rolls back when the  *)
(* statement raises).  The orchestrator (src/src/main.py) walks the        *)
(* configured metrics and feeds and routes what the connectors return to   *)
(* the storage functions.                                                  *)
(***************************************************************************)
EXTENDS Integers, Sequences, FiniteSets, TLC

VARIABLES
    observations,   \* table observations: a set of rows
    stories,        \* table stories: a set of rows
    metrics,        \* table metrics: a set of rows
    now,            \* the wall clock, in ticks of UTC time
    tz,             \* offset of the host's local time from UTC, in ticks
    call,           \* the storage call that returned last (history)
    ops,            \* number of direct storage calls made so far
    pc,             \* where main() is
    runs,           \* number of runs of main() started so far
    metrics_config, \* the "metrics" list of metrics.yaml, as loaded by this run
    feeds_config,   \* the "feeds" list of feeds.yaml, as loaded by this run
    pos,            \* position of the loop over the configured list
    connectors,     \* fetch_metrics' connector cache: the (source, connector) pairs
    batch,          \* what fetch_and_normalize returned for the current entry
    bpos,           \* position of the loop over batch
    trace,          \* what became of each entry of the current pass (history)
    upstream,       \* what the sources answer during this run, when it is fixed
    last_run,       \* the previous run's upstream and the keys it left (history)
    proc,           \* overlapping runs: where each run is, its batch, its transaction
    last_write,     \* overlapping runs: the last committed write of each key (history)
    cpc,            \* one connector call: where fetch_and_normalize is
    frame,          \* one connector call: its locals
    futures,        \* one connector call: the futures of the thread pool
    args,           \* the command line of this run: --gen-only, --fetch-only
    purges          \* calls of cleanup_old_stories made by this run (history)

storeVars == <<observations, stories, metrics, now, tz, call, ops>>
overlapVars == <<proc, last_write>>
fetchVars == <<cpc, frame, futures>>
cliVars == <<args, purges>>
auxVars == <<overlapVars, fetchVars, cliVars>>
runVars == <<pc, runs, metrics_config, feeds_config, pos, connectors, batch, bpos, trace,
             upstream, last_run, auxVars>>
vars == <<observations, stories, metrics, now, tz, call, ops,
          pc, runs, metrics_config, feeds_config, pos, connectors, batch, bpos, trace,
          upstream, last_run, proc, last_write, cpc, frame, futures, args, purges>>

---------------------------------------------------------------------------
(* Bounds of the model *)

MaxValue == 2       \* observation values, scores: 1..MaxValue
MaxTime == 3        \* the clock stops at MaxTime
TicksPerDay == 2    \* clock ticks in one calendar day
MaxDays == 1        \* cleanup_old_stories(days): days in 0..MaxDays
MaxOps == 3         \* storage calls made directly against the store
MaxRuns == 2        \* runs of main()
MaxWorkers == 2     \* worker threads of the pool (max_workers, scaled down)

\* a nullable column or an Optional field holds None or Some(x)
None == <<>>
Some(x) == <<x>>

Metrics == {"m1", "m2"}
MetricSources == {"fred", "ecb", "worldbank"}
Values == 1..MaxValue
ObsDates == {1, 2}
StoryIds == {1, 2}
Contents == {1, 2}
TZOffsets == {-1, 0, 1}

---------------------------------------------------------------------------
(* Timestamps as the store compares them: TEXT, byte by byte *)

\* the separator between date and time of day, as its ASCII code
SepSpace == 32
SepT == 84

\* SQLite datetime('now'): UTC, 'YYYY-MM-DD HH:MM:SS'
sqlite_datetime_now(t) == <<t \div TicksPerDay, SepSpace, t % TicksPerDay>>

\* Python datetime.isoformat(): 'YYYY-MM-DDTHH:MM:SS[.ffffff]'
isoformat(t) == <<t \div TicksPerDay, SepT, t % TicksPerDay>>

\* Python datetime.now(): naive local time
datetime_now == now + tz

\* SQLite's '<' on two TEXT values (BINARY collation): the first differing
\* position decides.  Both formats are date, separator, time of day.
TextLess(a, b) ==
    \/ a[1] < b[1]
    \/ a[1] = b[1] /\ a[2] < b[2]
    \/ a[1] = b[1] /\ a[2] = b[2] /\ a[3] < b[3]

\* the instant a stored timestamp text denotes
TimeOf(text) == text[1] * TicksPerDay + text[3]

---------------------------------------------------------------------------
(* get_connection: commit when the body returns, roll back when it raises *)

get_connection(before, after, raised) == IF raised THEN before ELSE after

---------------------------------------------------------------------------
(* observations *)

Observation(m, d, v, src) ==
    [metric_id |-> m, obs_date |-> d, value |-> v, unit |-> None, source |-> src]

\* the keys the direct calls write: they differ from the first in one component each
ObsKeys == {<<"m1", 1, "fred">>, <<"m1", 2, "fred">>, <<"m1", 1, "ecb">>, <<"m2", 1, "fred">>}

ObsInputs == {Observation(k[1], k[2], v, k[3]) : k \in ObsKeys, v \in Values}

ObsKey(r) == <<r.metric_id, r.obs_date, r.source>>

ObsConflict(table, obs) == {r \in table : ObsKey(r) = ObsKey(obs)}

\* a plain INSERT into a table that lost its UNIQUE constraint
insert_observation_sql(table, obs, t) ==
    table \cup {[metric_id |-> obs.metric_id, obs_date |-> obs.obs_date,
                 value |-> obs.value, unit |-> obs.unit, source |-> obs.source,
                 retrieved_at |-> sqlite_datetime_now(t)]}

\* a conflict clause that sets the value and leaves retrieved_at as it was
upsert_value_only_sql(table, obs, t) ==
    IF ObsConflict(table, obs) = {}
    THEN table \cup {[metric_id |-> obs.metric_id, obs_date |-> obs.obs_date,
                      value |-> obs.value, unit |-> obs.unit,
                      source |-> obs.source,
                      retrieved_at |-> sqlite_datetime_now(t)]}
    ELSE (table \ ObsConflict(table, obs)) \cup
         {[r EXCEPT !.value = obs.value] : r \in ObsConflict(table, obs)}

\* INSERT ... ON CONFLICT(metric_id, obs_date, source)
\*   DO UPDATE SET value = excluded.value, retrieved_at = datetime('now')
upsert_observation_sql(table, obs, t) ==
    IF ObsConflict(table, obs) = {}
    THEN table \cup {[metric_id |-> obs.metric_id, obs_date |-> obs.obs_date,
                      value |-> obs.value, unit |-> obs.unit,
                      source |-> obs.source,
                      retrieved_at |-> sqlite_datetime_now(t)]}
    ELSE (table \ ObsConflict(table, obs)) \cup
         {[r EXCEPT !.value = obs.value, !.retrieved_at = sqlite_datetime_now(t)] :
            r \in ObsConflict(table, obs)}

---------------------------------------------------------------------------
(* stories *)

\* a Story as the connectors build it: one payload c gives title, url, author
\* and posted_at; v gives score and comments
Story(id, c, v, src, feed) ==
    [id |-> id, title |-> c, url |-> IF c = 1 THEN None ELSE Some(c),
     score |-> v, comments |-> v - 1, author |-> c,
     posted_at |-> IF c = 1 THEN None ELSE Some(c),
     source |-> src, feed_id |-> feed]

FeedOf == [hn_firebase |-> "hn_top", hn_algolia |-> "hn_search"]
FeedSources == DOMAIN FeedOf

StoryInputs == {Story(id, c, v, src, FeedOf[src]) :
                  id \in StoryIds, c \in Contents, v \in Values, src \in FeedSources}

StoryConflict(table, story) == {r \in table : r.id = story.id}

\* INSERT OR REPLACE: the conflicting row is replaced whole
replace_story_sql(table, story, t) ==
    (table \ {r \in table : r.id = story.id}) \cup
    {[id |-> story.id, title |-> story.title, url |-> story.url,
      score |-> story.score, comments |-> story.comments, author |-> story.author,
      posted_at |-> IF story.posted_at = None THEN None
                    ELSE isoformat(story.posted_at[1]),
      source |-> story.source, feed_id |-> story.feed_id,
      retrieved_at |-> sqlite_datetime_now(t)]}

\* a conflict clause that leaves retrieved_at as the insertion set it
upsert_story_keep_time_sql(table, story, t) ==
    IF StoryConflict(table, story) = {}
    THEN replace_story_sql(table, story, t)
    ELSE (table \ StoryConflict(table, story)) \cup
         {[r EXCEPT !.score = story.score, !.comments = story.comments] :
            r \in StoryConflict(table, story)}

\* a conflict clause that also moves the story to the feed that saw it last
upsert_story_refeed_sql(table, story, t) ==
    IF StoryConflict(table, story) = {}
    THEN replace_story_sql(table, story, t)
    ELSE (table \ StoryConflict(table, story)) \cup
         {[r EXCEPT !.score = story.score, !.comments = story.comments,
                    !.retrieved_at = sqlite_datetime_now(t),
                    !.feed_id = story.feed_id] :
            r \in StoryConflict(table, story)}

\* INSERT ... ON CONFLICT(id) DO UPDATE SET score = excluded.score,
\*   comments = excluded.comments, retrieved_at = datetime('now')
\* (retrieved_at is not among the inserted columns: its DEFAULT applies)
upsert_story_sql(table, story, t) ==
    IF StoryConflict(table, story) = {}
    THEN table \cup {[id |-> story.id, title |-> story.title, url |-> story.url,
                      score |-> story.score, comments |-> story.comments,
                      author |-> story.author,
                      posted_at |-> IF story.posted_at = None THEN None
                                    ELSE isoformat(story.posted_at[1]),
                      source |-> story.source, feed_id |-> story.feed_id,
                      retrieved_at |-> sqlite_datetime_now(t)]}
    ELSE (table \ StoryConflict(table, story)) \cup
         {[r EXCEPT !.score = story.score, !.comments = story.comments,
                    !.retrieved_at = sqlite_datetime_now(t)] :
            r \in StoryConflict(table, story)}

\* cutoff = (datetime.now() - timedelta(days=days)).isoformat()
cleanup_cutoff(days) == isoformat(datetime_now - days * TicksPerDay)

\* DELETE FROM stories WHERE retrieved_at < ?
cleanup_old_stories_sql(table, cutoff) ==
    {r \in table : ~TextLess(r.retrieved_at, cutoff)}

---------------------------------------------------------------------------
(* metrics *)

\* the configured attributes of a metric, by configuration version
MetaName(c) == IF c = 1 THEN "name_a" ELSE "name_b"
MetaFrequency(c) == IF c = 1 THEN "monthly" ELSE "daily"
MetaUnit(c) == IF c = 1 THEN None ELSE Some("pct")

MetricMeta(id, name, src, freq, unit, last, updated, prev, chg, pct) ==
    [id |-> id, name |-> name, source |-> src, frequency |-> freq, unit |-> unit,
     last_value |-> last, last_updated |-> updated, previous_value |-> prev,
     change |-> chg, change_percent |-> pct]

MetaConflict(table, meta) == {r \in table : r.id = meta.id}

MetaStored(meta) ==
    [meta EXCEPT !.last_updated = IF meta.last_updated = None THEN None
                                  ELSE isoformat(meta.last_updated[1])]

\* INSERT INTO metrics (all ten columns) ... ON CONFLICT(id) DO UPDATE SET
\*   last_value, last_updated, previous_value, change, change_percent
insert_metric_meta_sql(table, meta) == table \cup {MetaStored(meta)}

\* a conflict clause that leaves change and change_percent out
update_values_only_sql(table, meta) ==
    IF MetaConflict(table, meta) = {}
    THEN table \cup {MetaStored(meta)}
    ELSE (table \ MetaConflict(table, meta)) \cup
         {[r EXCEPT !.last_value = meta.last_value,
                    !.last_updated = MetaStored(meta).last_updated,
                    !.previous_value = meta.previous_value] :
            r \in MetaConflict(table, meta)}

update_metric_meta_sql(table, meta) ==
    IF MetaConflict(table, meta) = {}
    THEN table \cup {MetaStored(meta)}
    ELSE (table \ MetaConflict(table, meta)) \cup
         {[r EXCEPT !.last_value = meta.last_value,
                    !.last_updated = MetaStored(meta).last_updated,
                    !.previous_value = meta.previous_value,
                    !.change = meta.change,
                    !.change_percent = meta.change_percent] :
            r \in MetaConflict(table, meta)}

\* calculate_change(current, previous) -> (change, change_percent)
calculate_change(current, previous) ==
    IF previous = None
    THEN <<None, None>>
    ELSE <<Some(current - previous[1]),
           IF previous[1] = 0 THEN None
           ELSE Some(<<(current - previous[1]) * 100, previous[1]>>)>>

ConfigVersions == {1, 2}
MetaSource(c) == IF c = 1 THEN "fred" ELSE "ecb"

MetaInputs == {MetricMeta(id, MetaName(c), MetaSource(c), MetaFrequency(c), MetaUnit(c),
                          v, Some(datetime_now), pv,
                          calculate_change(v, pv)[1], calculate_change(v, pv)[2]) :
                 id \in Metrics, c \in ConfigVersions, v \in Values,
                 pv \in {None} \cup {Some(x) : x \in Values}}

---------------------------------------------------------------------------
(* The storage functions: one connection, one statement, commit or rollback *)

\* a schema script that drops the tables before creating them
init_db_recreate ==
    /\ call' = [op |-> "init_db", raised |-> FALSE]
    /\ observations' = {}
    /\ stories' = {}
    /\ metrics' = {}

\* conn.executescript(SCHEMA): CREATE TABLE IF NOT EXISTS, CREATE INDEX IF NOT EXISTS
init_db ==
    /\ call' = [op |-> "init_db", raised |-> FALSE]
    /\ UNCHANGED <<observations, stories, metrics>>

upsert_observation(obs, raised) ==
    /\ observations' = get_connection(observations,
                           upsert_observation_sql(observations, obs, now), raised)
    /\ call' = IF raised THEN [op |-> "upsert_observation", raised |-> TRUE]
                ELSE [op |-> "upsert_observation", raised |-> FALSE, arg |-> obs]
    /\ UNCHANGED <<stories, metrics>>

upsert_story(story, raised) ==
    /\ stories' = get_connection(stories, upsert_story_sql(stories, story, now), raised)
    /\ call' = IF raised THEN [op |-> "upsert_story", raised |-> TRUE]
                ELSE [op |-> "upsert_story", raised |-> FALSE, arg |-> story]
    /\ UNCHANGED <<observations, metrics>>

\* returns cursor.rowcount, the number of rows the DELETE removed
cleanup_old_stories(days, raised) ==
    /\ stories' = get_connection(stories,
                      cleanup_old_stories_sql(stories, cleanup_cutoff(days)), raised)
    /\ call' = IF raised THEN [op |-> "cleanup_old_stories", raised |-> TRUE]
                ELSE [op |-> "cleanup_old_stories", raised |-> FALSE, arg |-> days,
                      ret |-> Cardinality(stories) - Cardinality(stories')]
    /\ UNCHANGED <<observations, metrics>>

update_metric_meta(meta, raised) ==
    /\ metrics' = get_connection(metrics, update_metric_meta_sql(metrics, meta), raised)
    /\ call' = IF raised THEN [op |-> "update_metric_meta", raised |-> TRUE]
                ELSE [op |-> "update_metric_meta", raised |-> FALSE, arg |-> meta]
    /\ UNCHANGED <<observations, stories>>

---------------------------------------------------------------------------
(* The read functions: SELECT ... ORDER BY ... LIMIT ? *)

Min(a, b) == IF a < b THEN a ELSE b

\* LIMIT n: at most n rows; a negative n is no limit
sqlite_limit(n, total) == IF n < 0 THEN total ELSE Min(n, total)

\* the lists of k distinct rows of a table
Listings(rows, k) ==
    {q \in [1..k -> rows] : \A i \in 1..k, j \in 1..k : i # j => q[i] # q[j]}

\* ORDER BY column DESC LIMIT n: the lists the statement may return; rows
\* with equal values of the column come in any order
order_by_desc_limit(rows, column, n) ==
    {q \in Listings(rows, sqlite_limit(n, Cardinality(rows))) :
        /\ \A i \in 1..(Len(q) - 1) : q[i][column] >= q[i + 1][column]
        /\ \A r \in rows : (\A i \in 1..Len(q) : q[i] # r) =>
                                \A i \in 1..Len(q) : q[i][column] >= r[column]}

\* SELECT obs_date, value, unit, source, retrieved_at
ObservationDict(r) ==
    [obs_date |-> r.obs_date, value |-> r.value, unit |-> r.unit, source |-> r.source,
     retrieved_at |-> r.retrieved_at]

\* SELECT id, title, url, score, comments, author, posted_at, source
StoryDict(r) ==
    [id |-> r.id, title |-> r.title, url |-> r.url, score |-> r.score,
     comments |-> r.comments, author |-> r.author, posted_at |-> r.posted_at,
     source |-> r.source]

\* [dict(row) for row in rows]
ObservationDicts(q) == [i \in 1..Len(q) |-> ObservationDict(q[i])]
StoryDicts(q) == [i \in 1..Len(q) |-> StoryDict(q[i])]

\* a WHERE clause that is not applied
select_observations_any_metric(table, metric_id, limit) ==
    order_by_desc_limit(table, "obs_date", limit)

\* SELECT ... FROM observations WHERE metric_id = ? ORDER BY obs_date DESC LIMIT ?
select_latest_observations(table, metric_id, limit) ==
    order_by_desc_limit({r \in table : r.metric_id = metric_id}, "obs_date", limit)

\* SELECT ... FROM stories WHERE feed_id = ? ORDER BY score DESC LIMIT ?
select_stories_by_feed(table, feed_id, limit) ==
    order_by_desc_limit({r \in table : r.feed_id = feed_id}, "score", limit)

\* SELECT * FROM metrics ORDER BY id: the rows; id is the primary key
select_all_metric_meta(table) == table

\* rows is what the SELECT picked, ret what the function returns
get_latest_observations(metric_id, limit) ==
    /\ \E q \in select_latest_observations(observations, metric_id, limit) :
          call' = [op |-> "get_latest_observations", raised |-> FALSE,
                   arg |-> <<metric_id, limit>>, rows |-> q,
                   ret |-> ObservationDicts(q)]
    /\ UNCHANGED <<observations, stories, metrics>>

get_stories_by_feed(feed_id, limit) ==
    /\ \E q \in select_stories_by_feed(stories, feed_id, limit) :
          call' = [op |-> "get_stories_by_feed", raised |-> FALSE,
                   arg |-> <<feed_id, limit>>, rows |-> q,
                   ret |-> StoryDicts(q)]
    /\ UNCHANGED <<observations, stories, metrics>>

\* a get_all_metric_meta that refreshes a column of the rows it reads
get_all_metric_meta_touching ==
    /\ call' = [op |-> "get_all_metric_meta", raised |-> FALSE,
                ret |-> select_all_metric_meta(metrics)]
    /\ metrics' = {[r EXCEPT !.last_updated = Some(datetime_now)] : r \in metrics}
    /\ UNCHANGED <<observations, stories>>

get_all_metric_meta ==
    /\ call' = [op |-> "get_all_metric_meta", raised |-> FALSE,
                ret |-> select_all_metric_meta(metrics)]
    /\ UNCHANGED <<observations, stories, metrics>>

---------------------------------------------------------------------------
(* Configuration *)

\* cleanup_old_stories(days=7)
RetentionDays == 7

\* a key an entry of the YAML list does not have
Missing == "<missing>"

\* entries of metrics.yaml
MetricEntry(id, name, source) ==
    [id |-> id, name |-> name, source |-> source,
     frequency |-> MetaFrequency(1), unit |-> MetaUnit(1)]

MetricConfigs ==
    {<<MetricEntry("m1", MetaName(1), "fred"), MetricEntry("m2", MetaName(1), "bogus")>>,
     <<MetricEntry("m1", MetaName(1), "bogus"), MetricEntry("m2", MetaName(1), "ecb")>>,
     <<MetricEntry(Missing, MetaName(1), "fred"), MetricEntry("m2", MetaName(1), "ecb")>>,
     <<MetricEntry("m1", Missing, "fred"), MetricEntry("m2", MetaName(1), "ecb")>>,
     <<MetricEntry(Missing, MetaName(1), "bogus"), MetricEntry("m2", MetaName(1), "ecb")>>}

\* entries of feeds.yaml
FeedEntry(id, name, source) == [id |-> id, name |-> name, source |-> source]

FeedConfigs ==
    {<<FeedEntry("hn_top", "Top", "hn_firebase"), FeedEntry("hn_search", "Search", "hn_algolia")>>,
     <<FeedEntry("hn_top", "Top", "bogus"), FeedEntry("hn_search", "Search", "hn_algolia")>>,
     <<FeedEntry(Missing, "Top", "hn_firebase"), FeedEntry("hn_search", "Search", "hn_algolia")>>,
     <<FeedEntry(Missing, "Top", "bogus"), FeedEntry("hn_search", "Search", "hn_algolia")>>}

\* args = parser.parse_args()
Args(gen_only, fetch_only) == [gen_only |-> gen_only, fetch_only |-> fetch_only]
FetchOnly == Args(FALSE, TRUE)
CommandLines == {Args(g, f) : g \in BOOLEAN, f \in BOOLEAN}

\* one metric and one feed
SmallDeployment ==
    <<<<MetricEntry("m1", MetaName(1), "fred")>>,
      <<FeedEntry("hn_top", "Top", "hn_firebase")>>>>

\* the two YAML files as deployed: they do not change between runs
Deployments ==
    {<<mc, <<>>>> : mc \in MetricConfigs} \cup {<<<<>>, fc>> : fc \in FeedConfigs}

\* two invocations of main() that overlap in time
Procs == {1, 2}

\* a run that has not started: no batch, no connection
IdleProc == [pc |-> "idle", batch |-> <<>>, bpos |-> 0, tx |-> "closed",
             stmt |-> [op |-> "none"], pending |-> {}]

\* nothing has been committed
NoWrites == [observations |-> {}, stories |-> {}, metrics |-> {}]

---------------------------------------------------------------------------
(* Connectors: configuration, raw items, normalize *)

\* FetchResult(success, data, error): what connector.fetch(config) returns
FetchResult(success, data, error) == [success |-> success, data |-> data, error |-> error]

\* limit = config.limit or 20
DefaultLimit == 20

\* identifiers in the index: one more than the pool has workers
MaxItems == MaxWorkers + 1

FeedLimits == {0, 1, MaxItems}
Queries == {None, Some(""), Some("rust")}

\* the FeedConfig a feed connector is called with
ConnectorFeedConfig(source, limit, query) ==
    [id |-> FeedOf[source], source |-> source, limit |-> limit, query |-> query]

NoConfig == [id |-> "none", source |-> "none", limit |-> 0, query |-> None]

\* one element of a raw list: a JSON object or null.  has_id: the key "id"
\* ("objectID") is there; numeric: int() accepts its value
RawItem(null, has_id, numeric, id, type) ==
    [null |-> null, has_id |-> has_id, numeric |-> numeric, id |-> id, type |-> type,
     c |-> 1, v |-> 1]

NullItem == RawItem(TRUE, FALSE, FALSE, 0, "none")
StoryItem(id) == RawItem(FALSE, TRUE, TRUE, id, "story")
CommentItem(id) == RawItem(FALSE, TRUE, TRUE, id, "comment")
NoIdItem == RawItem(FALSE, FALSE, FALSE, 0, "story")
BadIdItem == RawItem(FALSE, TRUE, FALSE, 0, "story")

WellFormed(item) == ~item.null /\ item.has_id /\ item.numeric

\* what a call of normalize gives: the list it returns, or the exception it raises
Returns(out) == [raised |-> None, out |-> out]
Raises(type, message) == [raised |-> Some(<<type, message>>), out |-> <<>>]

\* HNFirebaseConnector.normalize
RECURSIVE firebase_normalize(_, _)
firebase_normalize(config, raw_data) ==
    IF raw_data = <<>> THEN Returns(<<>>)
    ELSE LET item == Head(raw_data)
             rest == firebase_normalize(config, Tail(raw_data))
         IN  IF item.null THEN rest                             \* if not item: continue
             ELSE IF ~item.has_id THEN Raises("KeyError", "id")  \* item["id"]
             ELSE IF rest.raised # None THEN rest
             ELSE Returns(<<Story(item.id, item.c, item.v, "hn_firebase", config.id)>>
                          \o rest.out)

\* HNAlgoliaConnector.normalize
RECURSIVE algolia_normalize(_, _)
algolia_normalize(config, raw_data) ==
    IF raw_data = <<>> THEN Returns(<<>>)
    ELSE LET hit == Head(raw_data)
             rest == algolia_normalize(config, Tail(raw_data))
         IN  IF hit.null THEN Raises("AttributeError", "get")    \* hit.get(...)
             ELSE IF hit.has_id /\ ~hit.numeric
                  THEN Raises("ValueError", "int")               \* int(hit.get("objectID", 0))
             ELSE IF rest.raised # None THEN rest
             ELSE Returns(<<Story(IF hit.has_id THEN hit.id ELSE 0, hit.c, hit.v,
                                  "hn_algolia", config.id)>> \o rest.out)

normalize(connector, config, raw_data) ==
    IF connector = "hn_firebase" THEN firebase_normalize(config, raw_data)
    ELSE algolia_normalize(config, raw_data)

\* no connector call is in progress
IdleFrame ==
    [connector |-> "none", config |-> NoConfig, requests |-> 0, index |-> "none",
     stories |-> <<>>, result |-> FetchResult(FALSE, <<>>, None), normalized |-> FALSE,
     raised |-> None, out |-> <<>>]

---------------------------------------------------------------------------
(* The state before the first call *)

InitStore ==
    /\ observations = {}
    /\ stories = {}
    /\ metrics = {}
    /\ now = 0
    /\ tz \in TZOffsets
    /\ call = [op |-> "none", raised |-> FALSE]
    /\ ops = 0
    /\ pc = "idle"
    /\ runs = 0
    /\ pos = 0
    /\ connectors = {}
    /\ batch = <<>>
    /\ bpos = 0
    /\ trace = <<>>
    /\ upstream = <<>>
    /\ last_run = [upstream |-> <<>>, observations |-> {}, stories |-> {}, metrics |-> {}]
    /\ proc = [p \in Procs |-> IdleProc]
    /\ last_write = NoWrites
    /\ cpc = "idle"
    /\ frame = IdleFrame
    /\ futures = <<>>
    /\ args = FetchOnly
    /\ purges = 0

\* no main() is run: the storage functions are called by a client
InitDirect ==
    /\ InitStore
    /\ metrics_config = <<>>
    /\ feeds_config = <<>>

Init ==
    /\ InitStore
    /\ \E d \in Deployments : metrics_config = d[1] /\ feeds_config = d[2]

---------------------------------------------------------------------------
(* The storage functions called directly, in any order, with any argument *)

\* time passes
AdvanceClock ==
    /\ now < MaxTime
    /\ now' = now + 1
    /\ UNCHANGED <<observations, stories, metrics, tz, call, ops>>
    /\ UNCHANGED runVars

\* one direct call of a storage function
Direct(storageCall) ==
    /\ ops < MaxOps
    /\ ops' = ops + 1
    /\ storageCall
    /\ UNCHANGED <<now, tz>>
    /\ UNCHANGED runVars

NextObs ==
    \/ \E obs \in ObsInputs, raised \in BOOLEAN : Direct(upsert_observation(obs, raised))
    \/ Direct(init_db)
    \/ AdvanceClock

NextStories ==
    \/ \E story \in StoryInputs, raised \in BOOLEAN : Direct(upsert_story(story, raised))
    \/ \E days \in 0..MaxDays, raised \in BOOLEAN : Direct(cleanup_old_stories(days, raised))
    \/ AdvanceClock

NextMeta ==
    \/ \E meta \in MetaInputs, raised \in BOOLEAN : Direct(update_metric_meta(meta, raised))
    \/ AdvanceClock

\* limits below, at and above the number of rows the store can hold
ReadLimits == 0..(MaxOps + 1)

\* one direct call of a read function
DirectRead(readCall) ==
    /\ readCall
    /\ UNCHANGED <<now, tz, ops>>
    /\ UNCHANGED runVars

NextRead ==
    \/ \E obs \in ObsInputs : Direct(upsert_observation(obs, FALSE))
    \/ \E metric_id \in Metrics, limit \in ReadLimits :
          DirectRead(get_latest_observations(metric_id, limit))

\* the feeds write and purge stories, and a client lists them
NextFeeds ==
    \/ \E story \in StoryInputs : Direct(upsert_story(story, FALSE))
    \/ Direct(cleanup_old_stories(0, FALSE))
    \/ \E src \in FeedSources, limit \in ReadLimits :
          DirectRead(get_stories_by_feed(FeedOf[src], limit))

SpecRead == InitDirect /\ [][NextRead]_vars
SpecFeeds == InitDirect /\ [][NextFeeds]_vars
SpecObs == InitDirect /\ [][NextObs]_vars
SpecStories == InitDirect /\ [][NextStories]_vars
SpecMeta == InitDirect /\ [][NextMeta]_vars

---------------------------------------------------------------------------
(* The orchestrator: main(), fetch_metrics(), fetch_feeds() *)

\* what a metric connector may hand to the orchestrator: a failure, or a list
\* of observations of that metric and source, in whatever order the source gives
MetricResponses(metric) ==
    {<<>>} \cup
    {<<Observation(metric.id, d, v, metric.source)>> : d \in ObsDates, v \in Values} \cup
    {<<Observation(metric.id, dd[1], v1, metric.source),
       Observation(metric.id, dd[2], v2, metric.source)>> :
        dd \in {x \in ObsDates \X ObsDates : x[1] # x[2]}, v1 \in Values, v2 \in Values}

MetricResults(metric) ==
    {FetchResult(FALSE, <<>>, Some("upstream error"))} \cup
    {FetchResult(TRUE, r, None) : r \in MetricResponses(metric)}

\* what a feed connector may hand to the orchestrator: a failure, or stories
\* carrying source = SOURCE_NAME and feed_id = config.id
FeedResponses(feed) ==
    {<<>>} \cup
    {<<Story(id, c, v, feed.source, feed.id)>> :
        id \in StoryIds, c \in Contents, v \in Values} \cup
    {<<Story(1, c, v, feed.source, feed.id), Story(2, 1, 1, feed.source, feed.id)>> :
        c \in Contents, v \in Values}

FeedResults(feed) ==
    {FetchResult(FALSE, <<>>, Some("upstream error"))} \cup
    {FetchResult(TRUE, r, None) : r \in FeedResponses(feed)}

\* connectors.get(source)
dict_get(cache, source) ==
    IF \E p \in cache : p[1] = source
    THEN (CHOOSE p \in cache : p[1] = source)[2]
    ELSE "None"

\* get_connector(source): the cache after the call; built is whether the
\* connector's constructor returned (it raises ValueError otherwise)
get_connector(cache, source, built) ==
    IF \E p \in cache : p[1] = source THEN cache
    ELSE IF source \in MetricSources
         THEN cache \cup {<<source, IF built THEN "connector" ELSE "None">>}
         ELSE cache

\* the MetricMeta fetch_metrics builds from the configured entry and the batch
metric_meta(config, obs) ==
    MetricMeta(config.id, config.name, config.source, config.frequency, config.unit,
               obs[1].value, Some(datetime_now),
               IF Len(obs) > 1 THEN Some(obs[2].value) ELSE None,
               calculate_change(obs[1].value,
                                IF Len(obs) > 1 THEN Some(obs[2].value) ELSE None)[1],
               calculate_change(obs[1].value,
                                IF Len(obs) > 1 THEN Some(obs[2].value) ELSE None)[2])

\* the for loop moves to the next configured entry
Continue(loop, outcome) ==
    /\ pc' = loop
    /\ pos' = pos + 1
    /\ trace' = Append(trace, outcome)

\* an exception leaves the function
Escapes(where) ==
    /\ pc' = where
    /\ UNCHANGED <<pos, trace>>

\* main(): args = parser.parse_args(), init_db(), load_configs(), then
\* fetch_metrics(metrics_config) unless args.gen_only
StartRun(limit, argv) ==
    /\ pc = "idle"
    /\ runs < limit
    /\ runs' = runs + 1
    /\ args' \in argv
    /\ purges' = 0
    /\ init_db
    /\ pc' = IF ~args'.gen_only THEN "fetch_metrics"
             ELSE IF ~args'.fetch_only THEN "generate" ELSE "done"
    /\ pos' = 1
    /\ connectors' = {}
    /\ trace' = <<>>
    /\ UNCHANGED <<now, tz, ops, metrics_config, feeds_config, batch, bpos>>

MainStart ==
    /\ StartRun(MaxRuns, {FetchOnly})
    /\ UNCHANGED <<upstream, last_run, overlapVars, fetchVars>>

\* fetch_metrics: the head of the loop body, up to ConnectorConfig(...)
MetricSelect(builds) ==
    /\ pc = "fetch_metrics"
    /\ pos <= Len(metrics_config)
    /\ \E built \in builds :
        LET metric == metrics_config[pos]
            cache == get_connector(connectors, metric.source, built)
        IN  /\ connectors' = cache
            /\ IF dict_get(cache, metric.source) = "None"
               THEN \* logger.warning(f"... {metric['id']}"); continue
                    IF metric.id = Missing
                    THEN Escapes("KeyError in fetch_metrics")
                    ELSE Continue("fetch_metrics", "skipped")
               ELSE \* ConnectorConfig(metric_id=metric["id"], name=metric["name"], ...)
                    IF metric.id = Missing \/ metric.name = Missing
                    THEN Escapes("KeyError in fetch_metrics")
                    ELSE /\ pc' = "metric_fetch"
                         /\ UNCHANGED <<pos, trace>>
    /\ UNCHANGED <<storeVars, runs, metrics_config, feeds_config, batch, bpos,
                   upstream, last_run, auxVars>>

\* fetch_and_normalize: result = self.fetch(config); raise RuntimeError unless
\* result.success; return self.normalize(config, result.data).  The except
\* clause of the loop body catches the RuntimeError.
fetch_and_normalize(result, loop, store) ==
    IF ~result.success
    THEN /\ Continue(loop, "failed")
         /\ UNCHANGED <<batch, bpos>>
    ELSE /\ batch' = result.data
         /\ bpos' = 1
         /\ pc' = store
         /\ UNCHANGED <<pos, trace>>

\* observations = connector.fetch_and_normalize(config)
MetricFetch ==
    /\ pc = "metric_fetch"
    /\ \E result \in MetricResults(metrics_config[pos]) :
          fetch_and_normalize(result, "fetch_metrics", "metric_store")
    /\ UNCHANGED <<storeVars, runs, metrics_config, feeds_config, connectors,
                   upstream, last_run, auxVars>>

\* a loop that logs the failure of one upsert and goes on with the next
MetricStoreSkipping(faults) ==
    /\ pc = "metric_store"
    /\ bpos <= Len(batch)
    /\ \E raised \in faults :
        /\ upsert_observation(batch[bpos], raised)
        /\ bpos' = bpos + 1
        /\ UNCHANGED <<pc, pos, trace>>
    /\ UNCHANGED <<now, tz, ops, runs, metrics_config, feeds_config, connectors, batch,
                   upstream, last_run, auxVars>>

\* for obs in observations: upsert_observation(obs)
MetricStore(faults) ==
    /\ pc = "metric_store"
    /\ bpos <= Len(batch)
    /\ \E raised \in faults :
        /\ upsert_observation(batch[bpos], raised)
        /\ IF raised
           THEN Continue("fetch_metrics", "failed") /\ UNCHANGED bpos
           ELSE bpos' = bpos + 1 /\ UNCHANGED <<pc, pos, trace>>
    /\ UNCHANGED <<now, tz, ops, runs, metrics_config, feeds_config, connectors, batch,
                   upstream, last_run, auxVars>>

\* if observations: ... update_metric_meta(meta)
MetricMetaUpdate(faults) ==
    /\ pc = "metric_store"
    /\ bpos > Len(batch)
    /\ IF batch = <<>>
       THEN /\ Continue("fetch_metrics", "stored")
            /\ UNCHANGED <<observations, stories, metrics, call>>
       ELSE \E raised \in faults :
            /\ update_metric_meta(metric_meta(metrics_config[pos], batch), raised)
            /\ Continue("fetch_metrics", IF raised THEN "failed" ELSE "stored")
    /\ UNCHANGED <<now, tz, ops, runs, metrics_config, feeds_config, connectors, batch,
                   bpos, upstream, last_run, auxVars>>

\* fetch_metrics returns; fetch_feeds(feeds_config) builds its two connectors
MetricsDone ==
    /\ pc = "fetch_metrics"
    /\ pos > Len(metrics_config)
    /\ pc' = "fetch_feeds"
    /\ pos' = 1
    /\ connectors' = {<<"hn_firebase", "connector">>, <<"hn_algolia", "connector">>}
    /\ batch' = <<>>
    /\ bpos' = 0
    /\ trace' = <<>>
    /\ UNCHANGED <<storeVars, runs, metrics_config, feeds_config, upstream, last_run, auxVars>>

\* fetch_feeds: the head of the loop body, up to FeedConfig(...)
FeedSelect ==
    /\ pc = "fetch_feeds"
    /\ pos <= Len(feeds_config)
    /\ LET feed == feeds_config[pos]
       IN  IF dict_get(connectors, feed.source) = "None"
           THEN \* logger.warning(f"... {feed['id']}"); continue
                IF feed.id = Missing
                THEN Escapes("KeyError in fetch_feeds")
                ELSE Continue("fetch_feeds", "skipped")
           ELSE \* FeedConfig(id=feed["id"], name=feed["name"], ...)
                IF feed.id = Missing \/ feed.name = Missing
                THEN Escapes("KeyError in fetch_feeds")
                ELSE /\ pc' = "feed_fetch"
                     /\ UNCHANGED <<pos, trace>>
    /\ UNCHANGED <<storeVars, runs, metrics_config, feeds_config, connectors, batch, bpos,
                   upstream, last_run, auxVars>>

\* stories = connector.fetch_and_normalize(config)
FeedFetch ==
    /\ pc = "feed_fetch"
    /\ \E result \in FeedResults(feeds_config[pos]) :
          fetch_and_normalize(result, "fetch_feeds", "feed_store")
    /\ UNCHANGED <<storeVars, runs, metrics_config, feeds_config, connectors,
                   upstream, last_run, auxVars>>

\* for story in stories: upsert_story(story)
FeedStore(faults) ==
    /\ pc = "feed_store"
    /\ \/ /\ bpos <= Len(batch)
          /\ \E raised \in faults :
                /\ upsert_story(batch[bpos], raised)
                /\ IF raised
                   THEN Continue("fetch_feeds", "failed") /\ UNCHANGED bpos
                   ELSE bpos' = bpos + 1 /\ UNCHANGED <<pc, pos, trace>>
       \/ /\ bpos > Len(batch)
          /\ Continue("fetch_feeds", "stored")
          /\ UNCHANGED <<observations, stories, metrics, call, bpos>>
    /\ UNCHANGED <<now, tz, ops, runs, metrics_config, feeds_config, connectors, batch,
                   upstream, last_run, auxVars>>

\* fetch_feeds returns; deleted = cleanup_old_stories(days=7)
Purge(faults) ==
    /\ pc = "fetch_feeds"
    /\ pos > Len(feeds_config)
    /\ \E raised \in faults :
        /\ cleanup_old_stories(RetentionDays, raised)
        /\ pc' = IF raised THEN "error in main"
                 ELSE IF ~args.fetch_only THEN "generate" ELSE "done"
    /\ purges' = purges + 1
    /\ UNCHANGED <<now, tz, ops, runs, metrics_config, feeds_config, pos, connectors,
                   batch, bpos, trace, upstream, last_run, overlapVars, fetchVars, args>>

Ended == pc \in {"done", "error in main", "KeyError in fetch_metrics",
                 "KeyError in fetch_feeds", "KeyError in generate_dashboard"}

\* the process has exited; some time passes before main() is run again
SleepSteps == {1, RetentionDays * TicksPerDay}

Sleep(limit) ==
    /\ Ended
    /\ runs < limit
    /\ \E step \in SleepSteps : now' = now + step
    /\ pc' = "idle"
    /\ pos' = 0
    /\ connectors' = {}
    /\ batch' = <<>>
    /\ bpos' = 0
    /\ trace' = <<>>
    /\ purges' = 0
    /\ UNCHANGED <<observations, stories, metrics, tz, call, ops, runs,
                   metrics_config, feeds_config, upstream, last_run,
                   overlapVars, fetchVars, args>>

\* a storage call may raise (the database is locked, the disk is full)
Faults == BOOLEAN

NextRun ==
    \/ MainStart
    \/ MetricSelect(BOOLEAN)
    \/ MetricFetch
    \/ MetricStore(Faults)
    \/ MetricMetaUpdate(Faults)
    \/ MetricsDone
    \/ FeedSelect
    \/ FeedFetch
    \/ FeedStore(Faults)
    \/ Purge(Faults)
    \/ Sleep(MaxRuns)

SpecRun == Init /\ [][NextRun]_vars

---------------------------------------------------------------------------
(* Repeated runs against sources whose answers are known when the run starts *)

\* one metric, or one feed
RerunDeployments ==
    {<<<<MetricEntry("m1", MetaName(1), "fred")>>, <<>>>>,
     <<<<>>, <<FeedEntry("hn_top", "Top", "hn_firebase")>>>>}

InitRerun ==
    /\ InitStore
    /\ \E d \in RerunDeployments : metrics_config = d[1] /\ feeds_config = d[2]

\* the runs before the two that are compared leave an arbitrary store behind
RerunLimit == MaxRuns + 1

\* the answers of the sources to one run: one FetchResult per configured
\* metric, then one per configured feed
AllResults ==
    UNION ({MetricResults(metrics_config[i]) : i \in 1..Len(metrics_config)} \cup
           {FeedResults(feeds_config[i]) : i \in 1..Len(feeds_config)})

Upstreams ==
    {u \in [1..(Len(metrics_config) + Len(feeds_config)) -> AllResults] :
        /\ \A i \in 1..Len(metrics_config) : u[i] \in MetricResults(metrics_config[i])
        /\ \A i \in 1..Len(feeds_config) :
              u[Len(metrics_config) + i] \in FeedResults(feeds_config[i])}

ObsKeysOf(table) == {ObsKey(r) : r \in table}
IdsOf(table) == {r.id : r \in table}

\* main() starts; what the previous run was given and what it left is recorded
RerunStart ==
    /\ StartRun(RerunLimit, {FetchOnly})
    /\ upstream' \in Upstreams
    /\ last_run' = [upstream |-> upstream, observations |-> ObsKeysOf(observations),
                    stories |-> IdsOf(stories), metrics |-> IdsOf(metrics)]
    /\ UNCHANGED <<overlapVars, fetchVars>>

MetricReplay ==
    /\ pc = "metric_fetch"
    /\ fetch_and_normalize(upstream[pos], "fetch_metrics", "metric_store")
    /\ UNCHANGED <<storeVars, runs, metrics_config, feeds_config, connectors,
                   upstream, last_run, auxVars>>

FeedReplay ==
    /\ pc = "feed_fetch"
    /\ fetch_and_normalize(upstream[Len(metrics_config) + pos], "fetch_feeds", "feed_store")
    /\ UNCHANGED <<storeVars, runs, metrics_config, feeds_config, connectors,
                   upstream, last_run, auxVars>>

\* every storage call returns
NoFaults == {FALSE}

\* every connector's constructor returns: the API keys are in the environment
Constructed == {TRUE}

NextRerun ==
    \/ RerunStart
    \/ MetricSelect(Constructed)
    \/ MetricReplay
    \/ MetricStore(NoFaults)
    \/ MetricMetaUpdate(NoFaults)
    \/ MetricsDone
    \/ FeedSelect
    \/ FeedReplay
    \/ FeedStore(NoFaults)
    \/ Purge(NoFaults)
    \/ Sleep(RerunLimit)

SpecRerun == InitRerun /\ [][NextRerun]_vars

---------------------------------------------------------------------------
(* main() with its command line, and the rendering step *)

\* get_latest_observations(metric_id, limit=12)
SparklineLimit == 12

\* feed_config.get("limit", 20)
FeedDisplayLimit == 20

\* the metric ids listed by the groups of metrics.yaml
Groups == <<"m1", "m2">>

\* one metric and one feed, well formed or with an entry that has no id
MainDeployments ==
    {SmallDeployment,
     <<<<MetricEntry(Missing, MetaName(1), "fred")>>,
       <<FeedEntry("hn_top", "Top", "hn_firebase")>>>>,
     <<<<MetricEntry("m1", MetaName(1), "fred")>>,
       <<FeedEntry(Missing, "Top", "hn_firebase")>>>>}

InitMain ==
    /\ InitStore
    /\ tz = 0
    /\ \E d \in MainDeployments : metrics_config = d[1] /\ feeds_config = d[2]

\* python -m src.main [--gen-only] [--fetch-only]
CliStart ==
    /\ StartRun(MaxRuns, CommandLines)
    /\ UNCHANGED <<upstream, last_run, overlapVars, fetchVars>>

\* a failure or a single item
ShortResults(results) == {r \in results : r.success => Len(r.data) = 1}

\* observations = connector.fetch_and_normalize(config)
ShortMetricFetch ==
    /\ pc = "metric_fetch"
    /\ \E result \in ShortResults(MetricResults(metrics_config[pos])) :
          fetch_and_normalize(result, "fetch_metrics", "metric_store")
    /\ UNCHANGED <<storeVars, runs, metrics_config, feeds_config, connectors,
                   upstream, last_run, auxVars>>

\* stories = connector.fetch_and_normalize(config)
ShortFeedFetch ==
    /\ pc = "feed_fetch"
    /\ \E result \in ShortResults(FeedResults(feeds_config[pos])) :
          fetch_and_normalize(result, "fetch_feeds", "feed_store")
    /\ UNCHANGED <<storeVars, runs, metrics_config, feeds_config, connectors,
                   upstream, last_run, auxVars>>

RenderFrame == <<runs, metrics_config, feeds_config, connectors, batch, bpos, trace,
                 upstream, last_run, auxVars, now, tz, ops>>

\* build_dashboard_context: config = load_config(); all_meta = get_all_metric_meta()
RenderStart ==
    /\ pc = "generate"
    /\ get_all_metric_meta
    /\ pc' = "render_metrics"
    /\ pos' = 1
    /\ UNCHANGED RenderFrame

\* for metric_id in group.get("metrics", []): meta = meta_lookup.get(metric_id);
\* if meta: observations = get_latest_observations(metric_id, limit=12)
RenderMetric ==
    /\ pc = "render_metrics"
    /\ IF pos <= Len(Groups)
       THEN /\ IF Groups[pos] \in IdsOf(metrics)
               THEN get_latest_observations(Groups[pos], SparklineLimit)
               ELSE UNCHANGED <<observations, stories, metrics, call>>
            /\ pos' = pos + 1
            /\ UNCHANGED pc
       ELSE /\ pc' = "render_feeds"
            /\ pos' = 1
            /\ UNCHANGED <<observations, stories, metrics, call>>
    /\ UNCHANGED RenderFrame

\* for feed_config in config["feeds"].get("feeds", []):
\*     stories = get_stories_by_feed(feed_config["id"], limit=feed_config.get("limit", 20))
\* then template.render(**context) and output_path.write_text(html)
RenderFeed ==
    /\ pc = "render_feeds"
    /\ IF pos <= Len(feeds_config)
       THEN IF feeds_config[pos].id = Missing
            THEN /\ pc' = "KeyError in generate_dashboard"
                 /\ UNCHANGED <<observations, stories, metrics, call, pos>>
            ELSE /\ get_stories_by_feed(feeds_config[pos].id, FeedDisplayLimit)
                 /\ pos' = pos + 1
                 /\ UNCHANGED pc
       ELSE /\ pc' = "done"
            /\ UNCHANGED <<observations, stories, metrics, call, pos>>
    /\ UNCHANGED RenderFrame

\* time passes while main() runs
RunClock ==
    /\ pc # "idle"
    /\ ~Ended
    /\ AdvanceClock

\* one feed and no metric; the host is in any time zone
InitPurge ==
    /\ InitStore
    /\ metrics_config = <<>>
    /\ feeds_config = SmallDeployment[2]

\* runs of main() --fetch-only that take time, some of them a week apart
NextPurge ==
    \/ MainStart
    \/ MetricsDone
    \/ FeedSelect
    \/ FeedFetch
    \/ FeedStore(Faults)
    \/ Purge(NoFaults)
    \/ RunClock
    \/ Sleep(MaxRuns)

SpecPurge == InitPurge /\ [][NextPurge]_vars

NextMain ==
    \/ CliStart
    \/ MetricSelect(Constructed)
    \/ ShortMetricFetch
    \/ MetricStore(NoFaults)
    \/ MetricMetaUpdate(NoFaults)
    \/ MetricsDone
    \/ FeedSelect
    \/ ShortFeedFetch
    \/ FeedStore(NoFaults)
    \/ Purge(Faults)
    \/ RenderStart
    \/ RenderMetric
    \/ RenderFeed
    \/ Sleep(MaxRuns)

SpecMain == InitMain /\ [][NextMain]_vars

---------------------------------------------------------------------------
(* Two runs of main() that overlap, one storage transaction at a time *)

mainVars == <<pc, runs, metrics_config, feeds_config, pos, connectors, batch, bpos, trace,
              upstream, last_run, cliVars>>

\* both runs load the same configuration: one metric, or one feed
InitOverlap ==
    /\ InitStore
    /\ tz = 0
    /\ \E d \in RerunDeployments : metrics_config = d[1] /\ feeds_config = d[2]

IsMetricRun == metrics_config # <<>>

\* what fetch_and_normalize returns to a run: lists that meet on one key
OverlapBatches ==
    IF IsMetricRun
    THEN LET metric == metrics_config[1]
         IN  {<<Observation(metric.id, 1, v, metric.source)>> : v \in Values} \cup
             {<<Observation(metric.id, 2, v, metric.source),
                Observation(metric.id, 1, 1, metric.source)>> : v \in Values}
    ELSE LET feed == feeds_config[1]
         IN  {<<Story(1, c, v, feed.source, feed.id)>> : c \in Contents, v \in Values}

\* the storage function a run is in, with its argument
Write(p) ==
    IF proc[p].pc = "store"
    THEN [op |-> IF IsMetricRun THEN "upsert_observation" ELSE "upsert_story",
          arg |-> proc[p].batch[proc[p].bpos], at |-> now]
    ELSE IF proc[p].pc = "meta"
         THEN [op |-> "update_metric_meta",
               arg |-> metric_meta(metrics_config[1], proc[p].batch), at |-> now]
         ELSE [op |-> "cleanup_old_stories", arg |-> RetentionDays, at |-> now]

\* the table a statement writes, as the statement leaves it
Applied(w) ==
    IF w.op = "upsert_observation" THEN upsert_observation_sql(observations, w.arg, w.at)
    ELSE IF w.op = "upsert_story" THEN upsert_story_sql(stories, w.arg, w.at)
    ELSE IF w.op = "update_metric_meta" THEN update_metric_meta_sql(metrics, w.arg)
    ELSE cleanup_old_stories_sql(stories, cleanup_cutoff(w.arg))

\* where a run goes when its storage call has returned
AfterWrite(r) ==
    IF r.pc = "store"
    THEN IF r.bpos < Len(r.batch) THEN [r EXCEPT !.bpos = r.bpos + 1]
         ELSE [r EXCEPT !.pc = IF IsMetricRun THEN "meta" ELSE "purge"]
    ELSE IF r.pc = "meta" THEN [r EXCEPT !.pc = "purge"]
         ELSE [r EXCEPT !.pc = "done"]

\* where a run goes when its storage call has raised: the except clause of
\* the loop body ends the entry; the purge of main() is in no try block
AfterRaise(r) ==
    IF r.pc \in {"store", "meta"} THEN [r EXCEPT !.pc = "purge"]
    ELSE [r EXCEPT !.pc = "error in main"]

\* the write recorded as the last one committed on its key
Recorded(writes, w) ==
    IF w.op = "upsert_observation"
    THEN [writes EXCEPT !.observations =
            {x \in @ : ObsKey(x.arg) # ObsKey(w.arg)} \cup {[arg |-> w.arg, at |-> w.at]}]
    ELSE IF w.op = "upsert_story"
         THEN [writes EXCEPT !.stories =
                 {x \in @ : x.arg.id # w.arg.id} \cup {[arg |-> w.arg, at |-> w.at]}]
         ELSE IF w.op = "update_metric_meta"
              THEN [writes EXCEPT !.metrics =
                      {x \in @ : x.arg.id # w.arg.id} \cup {[arg |-> w.arg, at |-> w.at]}]
              ELSE writes

\* main() is invoked while another main() may be running
OverlapStartInTx(p) ==
    /\ proc[p].pc = "idle"
    /\ proc' = [proc EXCEPT ![p].pc = "network", ![p].tx = "open"]
    /\ UNCHANGED <<storeVars, mainVars, last_write, fetchVars>>

OverlapStart(p) ==
    /\ proc[p].pc = "idle"
    /\ proc' = [proc EXCEPT ![p].pc = "network"]
    /\ UNCHANGED <<storeVars, mainVars, last_write, fetchVars>>

\* connector.fetch_and_normalize(config) returns or raises
OverlapFetch(p) ==
    /\ proc[p].pc = "network"
    /\ \/ \E b \in OverlapBatches :
             proc' = [proc EXCEPT ![p].pc = "store", ![p].batch = b, ![p].bpos = 1]
       \/ proc' = [proc EXCEPT ![p].pc = "purge"]
    /\ UNCHANGED <<storeVars, mainVars, last_write, fetchVars>>

InCall(p) == proc[p].pc \in {"store", "meta", "purge"}

\* get_connection: conn = sqlite3.connect(DB_PATH)
TxBegin(p) ==
    /\ InCall(p)
    /\ proc[p].tx = "closed"
    /\ proc' = [proc EXCEPT ![p].tx = "open"]
    /\ UNCHANGED <<storeVars, mainVars, last_write, fetchVars>>

\* another connection holds the write lock of the database file
Locked(p) == \E q \in Procs \ {p} : proc[q].tx = "written"

\* conn.execute(...): the statement takes the write lock and runs, or it gives
\* up on a locked database, and get_connection rolls back, closes and re-raises
TxExecute(p) ==
    /\ proc[p].tx = "open"
    /\ IF Locked(p)
       THEN proc' = [proc EXCEPT ![p] = AfterRaise([@ EXCEPT !.tx = "closed"])]
       ELSE proc' = [proc EXCEPT ![p].tx = "written", ![p].stmt = Write(p),
                                 ![p].pending = Applied(Write(p))]
    /\ UNCHANGED <<storeVars, mainVars, last_write, fetchVars>>

\* get_connection: conn.commit(); conn.close(); the storage function returns
TxCommit(p) ==
    /\ proc[p].tx = "written"
    /\ LET w == proc[p].stmt
       IN  /\ observations' = IF w.op = "upsert_observation"
                              THEN get_connection(observations, proc[p].pending, FALSE)
                              ELSE observations
           /\ stories' = IF w.op \in {"upsert_story", "cleanup_old_stories"}
                         THEN get_connection(stories, proc[p].pending, FALSE)
                         ELSE stories
           /\ metrics' = IF w.op = "update_metric_meta"
                         THEN get_connection(metrics, proc[p].pending, FALSE)
                         ELSE metrics
           /\ last_write' = Recorded(last_write, w)
    /\ proc' = [proc EXCEPT ![p] = AfterWrite([@ EXCEPT !.tx = "closed",
                                                       !.stmt = [op |-> "none"],
                                                       !.pending = {}])]
    /\ UNCHANGED <<now, tz, call, ops, mainVars, fetchVars>>

NextOverlap ==
    \/ \E p \in Procs : OverlapStart(p)
    \/ \E p \in Procs : OverlapFetch(p)
    \/ \E p \in Procs : TxBegin(p)
    \/ \E p \in Procs : TxExecute(p)
    \/ \E p \in Procs : TxCommit(p)
    \/ AdvanceClock

SpecOverlap == InitOverlap /\ [][NextOverlap]_vars

---------------------------------------------------------------------------
(* One call of a feed connector: fetch, its thread pool, fetch_and_normalize *)

otherVars == <<storeVars, mainVars, overlapVars>>

InitFetch ==
    /\ InitDirect
    /\ tz = 0

\* the configurations the two connectors are called with
ConnectorConfigs ==
    {ConnectorFeedConfig("hn_firebase", limit, None) : limit \in FeedLimits} \cup
    {ConnectorFeedConfig("hn_algolia", MaxItems, query) : query \in Queries}

\* the raw lists normalize is called with
RawElements(connector) ==
    IF connector = "hn_firebase"
    THEN {StoryItem(1), StoryItem(2), NoIdItem, NullItem}
    ELSE {StoryItem(1), StoryItem(2), NoIdItem, BadIdItem, NullItem}

RawLists(connector) ==
    {<<>>} \cup {<<x>> : x \in RawElements(connector)} \cup
    {<<x, y>> : x \in RawElements(connector), y \in RawElements(connector)}

\* connector.fetch_and_normalize(config) is called
ConnectorCall ==
    /\ cpc = "idle"
    /\ \E config \in ConnectorConfigs :
          frame' = [IdleFrame EXCEPT !.connector = config.source, !.config = config]
    /\ cpc' = "fetch"
    /\ UNCHANGED <<futures, otherVars>>

\* fetch returns FetchResult(success=False, data=[], error=str(e))
FetchFails(error) ==
    /\ frame' = [frame EXCEPT !.requests = @ + 1, !.index = "failed",
                              !.result = FetchResult(FALSE, <<>>, Some(error))]
    /\ cpc' = "fetched"
    /\ UNCHANGED futures

\* an exception that is no requests.RequestException leaves fetch
FetchRaises(type) ==
    /\ frame' = [frame EXCEPT !.requests = @ + 1, !.index = "raised",
                              !.raised = Some(<<type, "">>)]
    /\ cpc' = "raised"
    /\ UNCHANGED futures

\* requests.get(...), raise_for_status(), response.json() go wrong.  A body
\* that is no JSON raises requests' JSONDecodeError, a RequestException, or,
\* with requests before 2.27, a plain ValueError.
RequestGoesWrong(shape_error) ==
    \/ \E error \in {"timeout", "http status", "malformed body"} : FetchFails(error)
    \/ FetchRaises("ValueError")
    \/ FetchRaises(shape_error)

\* HNFirebaseConnector.fetch: the index request, [:limit], the submissions
FirebaseIndex ==
    /\ cpc = "fetch"
    /\ frame.connector = "hn_firebase"
    /\ \/ RequestGoesWrong("TypeError")
       \/ \E n \in 0..MaxItems :
             LET limit == IF frame.config.limit = 0 THEN DefaultLimit
                          ELSE frame.config.limit
             IN  /\ futures' = [i \in 1..Min(n, limit) |->
                                  [state |-> "pending", item |-> NullItem,
                                   yielded |-> FALSE]]
                 /\ frame' = [frame EXCEPT !.requests = @ + 1, !.index = "ok"]
                 /\ cpc' = "pool"
    /\ UNCHANGED otherVars

Running == {i \in 1..Len(futures) : futures[i].state = "running"}

\* a pool whose threads each run one task and exit
WorkerStartOnce(i) ==
    /\ cpc = "pool"
    /\ i \in 1..Len(futures)
    /\ futures[i].state = "pending"
    /\ \A j \in 1..(i - 1) : futures[j].state # "pending"
    /\ Cardinality({j \in 1..Len(futures) : futures[j].state # "pending"}) < MaxWorkers
    /\ futures' = [futures EXCEPT ![i].state = "running"]
    /\ frame' = [frame EXCEPT !.requests = @ + 1]
    /\ UNCHANGED <<cpc, otherVars>>

\* an executor that starts a thread for every submitted task
WorkerStartUnbounded(i) ==
    /\ cpc = "pool"
    /\ i \in 1..Len(futures)
    /\ futures[i].state = "pending"
    /\ \A j \in 1..(i - 1) : futures[j].state # "pending"
    /\ futures' = [futures EXCEPT ![i].state = "running"]
    /\ frame' = [frame EXCEPT !.requests = @ + 1]
    /\ UNCHANGED <<cpc, otherVars>>

\* a worker thread takes the oldest queued _fetch_item(sid)
WorkerStart(i) ==
    /\ cpc = "pool"
    /\ i \in 1..Len(futures)
    /\ futures[i].state = "pending"
    /\ \A j \in 1..(i - 1) : futures[j].state # "pending"
    /\ Cardinality(Running) < MaxWorkers
    /\ futures' = [futures EXCEPT ![i].state = "running"]
    /\ frame' = [frame EXCEPT !.requests = @ + 1]
    /\ UNCHANGED <<cpc, otherVars>>

\* what _fetch_item(sid) can return: a story, a story without id, an item
\* of another type, or None (any exception, or a null body)
ItemOutcomes(sid) == {StoryItem(sid), NoIdItem, CommentItem(sid), NullItem}

\* _fetch_item(sid) returns
WorkerFinish(i) ==
    /\ cpc = "pool"
    /\ i \in 1..Len(futures)
    /\ futures[i].state = "running"
    /\ \E item \in ItemOutcomes(i) :
          futures' = [futures EXCEPT ![i].state = "done", ![i].item = item]
    /\ UNCHANGED <<cpc, frame, otherVars>>

\* a loop body that keeps every item that is not None
CollectAny(i) ==
    /\ cpc = "pool"
    /\ i \in 1..Len(futures)
    /\ futures[i].state = "done"
    /\ ~futures[i].yielded
    /\ futures' = [futures EXCEPT ![i].yielded = TRUE]
    /\ frame' = [frame EXCEPT !.stories =
                    IF ~futures[i].item.null THEN Append(@, futures[i].item) ELSE @]
    /\ UNCHANGED <<cpc, otherVars>>

\* the body of "for future in as_completed(futures)"
Collect(i) ==
    /\ cpc = "pool"
    /\ i \in 1..Len(futures)
    /\ futures[i].state = "done"
    /\ ~futures[i].yielded
    /\ futures' = [futures EXCEPT ![i].yielded = TRUE]
    /\ frame' = [frame EXCEPT !.stories =
                    IF ~futures[i].item.null /\ futures[i].item.type = "story"
                    THEN Append(@, futures[i].item) ELSE @]
    /\ UNCHANGED <<cpc, otherVars>>

\* a fetch that reports an empty list of stories as a failure
PoolExitStrict ==
    /\ cpc = "pool"
    /\ \A i \in 1..Len(futures) : futures[i].yielded
    /\ Running = {}
    /\ frame' = [frame EXCEPT !.result =
                    IF frame.stories = <<>>
                    THEN FetchResult(FALSE, <<>>, Some("no stories"))
                    ELSE FetchResult(TRUE, frame.stories, None)]
    /\ cpc' = "fetched"
    /\ UNCHANGED <<futures, otherVars>>

\* the with block ends: executor.shutdown(wait=True); return FetchResult(...)
PoolExit ==
    /\ cpc = "pool"
    /\ \A i \in 1..Len(futures) : futures[i].yielded
    /\ Running = {}
    /\ frame' = [frame EXCEPT !.result = FetchResult(TRUE, frame.stories, None)]
    /\ cpc' = "fetched"
    /\ UNCHANGED <<futures, otherVars>>

\* a fetch that validates with "config.query is None"
AlgoliaFetchNoneOnly ==
    /\ cpc = "fetch"
    /\ frame.connector = "hn_algolia"
    /\ IF frame.config.query = None
       THEN /\ frame' = [frame EXCEPT !.index = "failed", !.result =
                   FetchResult(FALSE, <<>>, Some("query required for Algolia search"))]
            /\ cpc' = "fetched"
            /\ UNCHANGED futures
       ELSE \/ RequestGoesWrong("AttributeError")
            \/ \E hits \in RawLists("hn_algolia") :
                  /\ frame' = [frame EXCEPT !.requests = @ + 1, !.index = "ok",
                                            !.result = FetchResult(TRUE, hits, None)]
                  /\ cpc' = "fetched"
                  /\ UNCHANGED futures
    /\ UNCHANGED otherVars

\* HNAlgoliaConnector.fetch
AlgoliaFetch ==
    /\ cpc = "fetch"
    /\ frame.connector = "hn_algolia"
    /\ IF frame.config.query \in {None, Some("")}
       THEN /\ frame' = [frame EXCEPT !.index = "failed", !.result =
                   FetchResult(FALSE, <<>>, Some("query required for Algolia search"))]
            /\ cpc' = "fetched"
            /\ UNCHANGED futures
       ELSE \/ RequestGoesWrong("AttributeError")
            \/ \E hits \in RawLists("hn_algolia") :
                  /\ frame' = [frame EXCEPT !.requests = @ + 1, !.index = "ok",
                                            !.result = FetchResult(TRUE, hits, None)]
                  /\ cpc' = "fetched"
                  /\ UNCHANGED futures
    /\ UNCHANGED otherVars

\* a fetch_and_normalize that turns a failed fetch into an empty list
ComposeLenient ==
    /\ cpc = "fetched"
    /\ LET got == IF frame.result.success
                  THEN normalize(frame.connector, frame.config, frame.result.data)
                  ELSE Returns(<<>>)
       IN  /\ frame' = [frame EXCEPT !.normalized = frame.result.success,
                                     !.raised = got.raised, !.out = got.out]
           /\ cpc' = IF got.raised = None THEN "returned" ELSE "raised"
    /\ UNCHANGED <<futures, otherVars>>

\* fetch_and_normalize, after result = self.fetch(config)
Compose ==
    /\ cpc = "fetched"
    /\ IF ~frame.result.success
       THEN /\ frame' = [frame EXCEPT !.raised =
                            Some(<<"RuntimeError", frame.result.error[1]>>)]
            /\ cpc' = "raised"
       ELSE LET got == normalize(frame.connector, frame.config, frame.result.data)
            IN  /\ frame' = [frame EXCEPT !.normalized = TRUE, !.raised = got.raised,
                                          !.out = got.out]
                /\ cpc' = IF got.raised = None THEN "returned" ELSE "raised"
    /\ UNCHANGED <<futures, otherVars>>

\* connector.normalize(config, raw_data) called on its own
NormalizeCall ==
    /\ cpc = "idle"
    /\ \E config \in ConnectorConfigs : \E raw_data \in RawLists(config.source) :
          LET got == normalize(config.source, config, raw_data)
          IN  /\ frame' = [IdleFrame EXCEPT !.connector = config.source,
                                            !.config = config, !.index = "direct",
                                            !.result = FetchResult(TRUE, raw_data, None),
                                            !.normalized = TRUE, !.raised = got.raised,
                                            !.out = got.out]
              /\ cpc' = IF got.raised = None THEN "returned" ELSE "raised"
    /\ UNCHANGED <<futures, otherVars>>

NextFetch ==
    \/ ConnectorCall
    \/ FirebaseIndex
    \/ \E i \in 1..MaxItems : WorkerStart(i)
    \/ \E i \in 1..MaxItems : WorkerFinish(i)
    \/ \E i \in 1..MaxItems : Collect(i)
    \/ PoolExit
    \/ AlgoliaFetch
    \/ Compose
    \/ NormalizeCall

SpecFetch == InitFetch /\ [][NextFetch]_vars

\* the threads are scheduled, and every request ends, by its answer or by
\* its timeout
PoolFairness ==
    /\ \A i \in 1..MaxItems :
          WF_vars(WorkerStart(i)) /\ WF_vars(WorkerFinish(i)) /\ WF_vars(Collect(i))
    /\ WF_vars(PoolExit)

SpecFetchFair == SpecFetch /\ PoolFairness

---------------------------------------------------------------------------
(* Claims about the storage functions *)

\* the step is one storage call that returned normally
Returned(op) == ops' = ops + 1 /\ call'.op = op /\ ~call'.raised

\* C1: upserts on one (metric_id, obs_date, source) key leave exactly one row
\* with that key, holding the value of the last upsert that returned; no
\* upsert touches the row of another key.
C1_OneRowPerKeyLatestValue ==
    /\ [](\A r1, r2 \in observations : ObsKey(r1) = ObsKey(r2) => r1 = r2)
    /\ []((call.op = "upsert_observation" /\ ~call.raised) =>
            \E r \in observations :
                ObsKey(r) = ObsKey(call.arg) /\ r.value = call.arg.value)
    /\ [][Returned("upsert_observation") =>
            \A r \in observations :
                ObsKey(r) # ObsKey(call'.arg) => r \in observations']_vars

\* C1 witness: a second upsert on a stored key, with another value, returned
C1_Witness ==
    /\ call.op = "upsert_observation" /\ ~call.raised
    /\ \E r \in observations :
          /\ ObsKey(r) = ObsKey(call.arg)
          /\ r.value = 2
          /\ TimeOf(r.retrieved_at) > 0
    /\ Cardinality(observations) = 2

StoryFixed(r) == <<r.id, r.title, r.url, r.author, r.posted_at, r.source, r.feed_id>>

\* C2: an upsert_story on a stored id leaves every column of the row but
\* score, comments and retrieved_at as it was, and the id keeps one row.
C2_StoryImmutableFields ==
    /\ [](\A r1, r2 \in stories : r1.id = r2.id => r1 = r2)
    /\ [][Returned("upsert_story") =>
            \A r \in stories : \E r2 \in stories' : StoryFixed(r2) = StoryFixed(r)]_vars

\* C2 witness: an upsert carrying another title and url hit a stored id
C2_Witness ==
    /\ call.op = "upsert_story" /\ ~call.raised
    /\ \E r \in stories :
          /\ r.id = call.arg.id
          /\ r.title # call.arg.title
          /\ r.url # call.arg.url
          /\ r.score = call.arg.score

\* C3 (as claimed): cleanup_old_stories(days) deletes exactly the stories
\* retrieved before now - days, keeps the others, and returns the number deleted.
C3_CleanupExact ==
    [][Returned("cleanup_old_stories") =>
        /\ stories' = {r \in stories :
                         ~(TimeOf(r.retrieved_at) < now - call'.arg * TicksPerDay)}
        /\ call'.ret = Cardinality(stories \ stories')]_vars

\* C10 (as claimed): after update_metric_meta(meta) the row of meta.id holds
\* meta in every column.
C10_FullRowReplace ==
    (call.op = "update_metric_meta" /\ ~call.raised) =>
        \A r \in metrics : r.id = call.arg.id => r = MetaStored(call.arg)

---------------------------------------------------------------------------
(* Claims about the orchestrator *)

\* C4: no step of a run removes an observation key or a snapshot id, and a
\* step that removes a story is the purge of main(), which calls
\* cleanup_old_stories and touches no other table.
C4_OnlyCleanupDeletes ==
    [][/\ ObsKeysOf(observations) \subseteq ObsKeysOf(observations')
       /\ IdsOf(metrics) \subseteq IdsOf(metrics')
       /\ ~(IdsOf(stories) \subseteq IdsOf(stories')) =>
             /\ pc = "fetch_feeds" /\ pos > Len(feeds_config)
             /\ call'.op = "cleanup_old_stories" /\ ~call'.raised
             /\ observations' = observations
             /\ metrics' = metrics]_vars

\* C4 witness: the purge of a later run deleted a story an earlier run stored
C4_Witness ==
    /\ pc = "done"
    /\ runs = 2
    /\ call.op = "cleanup_old_stories" /\ ~call.raised
    /\ call.ret > 0

\* the configuration the current loop walks
LoopConfig ==
    IF pc \in {"fetch_metrics", "metric_fetch", "metric_store", "KeyError in fetch_metrics"}
    THEN metrics_config
    ELSE IF pc \in {"fetch_feeds", "feed_fetch", "feed_store", "KeyError in fetch_feeds"}
         THEN feeds_config
         ELSE <<>>

\* the loop has ended, by running off the list or by an exception
LoopOver ==
    \/ pc \in {"KeyError in fetch_metrics", "KeyError in fetch_feeds"}
    \/ pc \in {"fetch_metrics", "fetch_feeds"} /\ pos > Len(LoopConfig)

\* C6 (as claimed): no exception leaves fetch_metrics or fetch_feeds, and when
\* the loop is over every configured entry has been processed.
C6_NoErrorEscapes ==
    /\ pc \notin {"KeyError in fetch_metrics", "KeyError in fetch_feeds"}
    /\ LoopOver => Len(trace) = Len(LoopConfig)

KnownSources == MetricSources \cup FeedSources

\* C7 (as claimed): an entry whose source has no connector is skipped, and
\* the entries after it are still processed.
C7_UnknownSourceSkipped ==
    \A i \in 1..Len(LoopConfig) :
        LoopConfig[i].source \notin KnownSources =>
            /\ i <= Len(trace) => trace[i] = "skipped"
            /\ LoopOver => Len(trace) = Len(LoopConfig)

\* the points of a batch, newest obs_date first
RECURSIVE ByDateDesc(_)
ByDateDesc(points) ==
    IF points = {} THEN <<>>
    ELSE LET newest == CHOOSE p \in points : \A q \in points : q.obs_date <= p.obs_date
         IN  <<newest>> \o ByDateDesc(points \ {newest})

SeqRange(seq) == {seq[i] : i \in 1..Len(seq)}

\* the snapshot values the two newest of a set of points give
NewestTwo(points) ==
    LET sorted == ByDateDesc(points)
    IN  <<sorted[1].value, IF Len(sorted) > 1 THEN Some(sorted[2].value) ELSE None>>

\* fetch_metrics has just stored the snapshot of a fetched batch
SnapshotWritten ==
    /\ pc = "fetch_metrics"
    /\ trace # <<>> /\ trace[Len(trace)] = "stored"
    /\ batch # <<>>
    /\ call.op = "update_metric_meta" /\ ~call.raised

\* C8 (as claimed): the snapshot written after a fetch holds the values of the
\* returned points with the greatest and the second greatest obs_date.
C8_SnapshotFromNewestTwo ==
    SnapshotWritten =>
        \A r \in metrics : r.id = batch[1].metric_id =>
            <<r.last_value, r.previous_value>> = NewestTwo(SeqRange(batch))

\* C9 (as claimed): between runs, every snapshot row holds the values of the
\* two stored observations of its metric with the greatest obs_date.
C9_SnapshotDerivable ==
    Ended =>
        \A r \in metrics :
            <<r.last_value, r.previous_value>> =
                NewestTwo({o \in observations : o.metric_id = r.id})

---------------------------------------------------------------------------
(* Claims about repeated runs *)

\* a run has completed that was given the answers the run before it was given
SecondIdenticalRun ==
    /\ pc = "done"
    /\ runs >= 2
    /\ upstream = last_run.upstream

---------------------------------------------------------------------------
(* Claims about overlapping runs *)

\* the five columns the conflict clause of update_metric_meta sets
MetaValues(r) == <<r.last_value, r.last_updated, r.previous_value, r.change,
                   r.change_percent>>

\* C11: every snapshot row with last_value and previous_value present has
\* change = last_value - previous_value, and its five value columns are those
\* of the last committed update_metric_meta of its id, also when two runs
\* interleave their writes on that id.
C11_ChangeIsDifference ==
    \A r \in metrics :
        /\ r.previous_value # None =>
              r.change = Some(r.last_value - r.previous_value[1])
        /\ \E x \in last_write.metrics :
              x.arg.id = r.id /\ MetaValues(r) = MetaValues(MetaStored(x.arg))

\* C11 witness: both runs are done; the snapshot is the one of the run that
\* returned two points, written after the other run's snapshot, and the
\* observation of date 1 is the other run's
C11_Witness ==
    /\ \A p \in Procs : proc[p].pc = "done"
    /\ \E r \in metrics : r.previous_value = Some(1) /\ r.change = Some(1)
    /\ \E o \in observations : o.obs_date = 1 /\ o.value = 2

OutsideStore(p) == proc[p].pc \in {"idle", "network", "done", "error in main"}

\* C20: a run has no connection open while it is in fetch_and_normalize or
\* outside the storage calls; every storage call returns (the run moves on to
\* its next write) with its connection closed, having been inside a
\* transaction of its own; and a transaction that has executed its statement
\* ends without executing another.
C20_OneWriteOneTransaction ==
    /\ [](\A p \in Procs : OutsideStore(p) => proc[p].tx = "closed")
    /\ [][\A p \in Procs :
            /\ (InCall(p) /\ (proc'[p].pc # proc[p].pc \/ proc'[p].bpos # proc[p].bpos))
                  => (proc[p].tx \in {"open", "written"} /\ proc'[p].tx = "closed")
            /\ (proc[p].tx = "written" /\ proc'[p] # proc[p])
                  => (proc'[p].tx = "closed" /\ proc'[p].pending = {})]_vars

\* C20 witness: one run is inside fetch_and_normalize while the other run,
\* its first upsert committed, holds the write lock with its second
C20_Witness ==
    \E p \in Procs, q \in Procs :
        /\ p # q
        /\ proc[p].pc = "network"
        /\ proc[q].pc = "store"
        /\ proc[q].bpos = 2
        /\ proc[q].tx = "written"
        /\ last_write.observations # {}

---------------------------------------------------------------------------
(* Claims about the feed connectors *)

\* HNFirebaseConnector.fetch has left its thread pool
PoolLeft ==
    /\ frame.connector = "hn_firebase"
    /\ frame.index = "ok"
    /\ cpc # "pool"

\* the futures whose _fetch_item returned an item of type story
Resolved == {i \in 1..Len(futures) : ~futures[i].item.null /\ futures[i].item.type = "story"}

\* C12: when HNFirebaseConnector.fetch has left the pool, every resolution has
\* finished, fetch has returned a successful result and raised nothing, and
\* the returned list holds the items resolved with type story, each once, and
\* no other item.
C12_ExactlyResolvedStories ==
    PoolLeft =>
        /\ \A i \in 1..Len(futures) : futures[i].state = "done"
        /\ frame.result.success
        /\ ~frame.normalized => frame.raised = None
        /\ Len(frame.result.data) = Cardinality(Resolved)
        /\ \A i \in Resolved :
              \E k \in 1..Len(frame.result.data) : frame.result.data[k] = futures[i].item
        /\ \A k \in 1..Len(frame.result.data) :
              \E i \in Resolved : frame.result.data[k] = futures[i].item

\* C12 witness: MaxItems identifiers, one resolution failed, one gave an item
\* of another type, the others came back
C12_Witness ==
    /\ PoolLeft
    /\ Len(futures) = MaxItems
    /\ Cardinality({i \in 1..Len(futures) : futures[i].item.null}) = 1
    /\ Cardinality({i \in 1..Len(futures) : futures[i].item.type = "comment"}) = 1
    /\ Len(frame.result.data) = MaxItems - 2

\* C13: HNFirebaseConnector.fetch leaves its pool only when no resolution is
\* running or waiting, and, every resolution ending, it does leave the pool,
\* also with more identifiers than worker threads.
C13_ReturnsAfterAllWorkers ==
    /\ [](PoolLeft =>
            /\ Running = {}
            /\ \A i \in 1..Len(futures) : futures[i].state \notin {"pending", "running"})
    /\ (cpc = "pool") ~> PoolLeft

\* C13 witness: fetch has returned with more identifiers than worker threads
C13_Witness ==
    /\ PoolLeft
    /\ cpc = "fetched"
    /\ Len(futures) > MaxWorkers

\* the index request succeeded and no resolution gave an item
NothingResolved ==
    /\ PoolLeft
    /\ \A i \in 1..Len(futures) : futures[i].item.null

\* C14: when the index request succeeds and every resolution fails, or the
\* index is empty, fetch returns success with an empty list, and
\* fetch_and_normalize returns the empty list and raises nothing.
C14_EmptySuccess ==
    NothingResolved =>
        /\ frame.result = FetchResult(TRUE, <<>>, None)
        /\ frame.raised = None
        /\ cpc # "fetched" => cpc = "returned" /\ frame.normalized /\ frame.out = <<>>

\* C14 witness: MaxItems identifiers, every resolution failed,
\* fetch_and_normalize has returned
C14_Witness ==
    /\ NothingResolved
    /\ Len(futures) = MaxItems
    /\ cpc = "returned"

\* C15 (as claimed): a request of fetch that goes wrong (timeout, status,
\* malformed or unexpectedly shaped body) gives a returned FetchResult with
\* success = false and an error message; no exception leaves fetch.
C15_FetchNeverRaises ==
    /\ frame.index # "raised"
    /\ frame.index = "failed" =>
          ~frame.result.success /\ frame.result.error # None

\* the records of the well-formed items of a raw list, in order
RECURSIVE WellFormedStories(_, _, _)
WellFormedStories(connector, config, raw_data) ==
    IF raw_data = <<>> THEN <<>>
    ELSE (IF WellFormed(Head(raw_data))
          THEN <<Story(Head(raw_data).id, Head(raw_data).c, Head(raw_data).v,
                       connector, config.id)>>
          ELSE <<>>) \o WellFormedStories(connector, config, Tail(raw_data))

\* C16 (as claimed): normalize, called on a raw list with malformed items
\* (missing id, non-numeric objectID, null entry), raises nothing and returns
\* the records of the well-formed items.
C16_NormalizeSkipsMalformed ==
    frame.normalized =>
        /\ frame.raised = None
        /\ frame.out = WellFormedStories(frame.connector, frame.config, frame.result.data)

\* fetch returned a FetchResult and fetch_and_normalize has ended
Composed ==
    /\ cpc \in {"returned", "raised"}
    /\ frame.index \in {"ok", "failed"}

\* C17: fetch_and_normalize raises a RuntimeError carrying result.error, and
\* does not call normalize, exactly when fetch returned success = false;
\* otherwise its outcome is the outcome of normalize(config, result.data).
C17_ComposedOutcome ==
    Composed =>
        IF ~frame.result.success
        THEN /\ cpc = "raised"
             /\ frame.raised = Some(<<"RuntimeError", frame.result.error[1]>>)
             /\ ~frame.normalized
        ELSE /\ frame.normalized
             /\ [raised |-> frame.raised, out |-> frame.out] =
                   normalize(frame.connector, frame.config, frame.result.data)
             /\ (cpc = "returned") <=> (frame.raised = None)
             /\ frame.raised # None => frame.raised[1][1] # "RuntimeError"

\* C17 witness: the index request timed out and fetch_and_normalize raised
\* with that error
C17_Witness ==
    /\ Composed
    /\ frame.result = FetchResult(FALSE, <<>>, Some("timeout"))
    /\ frame.raised = Some(<<"RuntimeError", "timeout">>)

\* HNAlgoliaConnector.fetch was called without a query and has ended
FetchedWithoutQuery ==
    /\ frame.connector = "hn_algolia"
    /\ frame.index # "direct"
    /\ frame.config.query \in {None, Some("")}
    /\ cpc \notin {"idle", "fetch"}

\* C18: HNAlgoliaConnector.fetch with an empty or missing query returns
\* success = false with an error message, raises nothing and sends no request.
C18_QueryRequired ==
    FetchedWithoutQuery =>
        /\ frame.index = "failed"
        /\ ~frame.result.success
        /\ frame.result.error # None
        /\ frame.requests = 0

\* C18 witness: fetch has returned for the empty string as query
C18_Witness ==
    /\ FetchedWithoutQuery
    /\ frame.config.query = Some("")
    /\ cpc = "fetched"

---------------------------------------------------------------------------
(* Claims about main(), the rendering step and the read functions *)

AfterPurge == pc \in {"done", "error in main", "generate", "render_metrics",
                      "render_feeds", "KeyError in generate_dashboard"}

\* C21 (as claimed): a run without --gen-only calls cleanup_old_stories exactly
\* once, after fetch_feeds has processed every configured feed; a run with
\* --gen-only never calls it.
C21_PurgeExactlyOnce ==
    /\ args.gen_only => purges = 0
    /\ purges > 0 => (AfterPurge /\ Len(trace) = Len(feeds_config))
    /\ purges <= 1
    /\ (Ended /\ ~args.gen_only) => purges = 1

\* C22: get_latest_observations(metric_id, limit) returns min(limit, number of
\* rows stored for metric_id) rows; they are distinct stored rows of metric_id, in
\* descending order of obs_date, and no stored row of metric_id left out has a
\* greater obs_date than a row returned.
C22_LatestObservations ==
    call.op = "get_latest_observations" =>
        LET stored == {r \in observations : r.metric_id = call.arg[1]}
            ret == call.ret
        IN  /\ Len(ret) = Min(call.arg[2], Cardinality(stored))
            /\ Len(call.rows) = Len(ret)
            /\ \A i \in 1..Len(ret) :
                  /\ call.rows[i] \in stored
                  /\ ret[i] = ObservationDict(call.rows[i])
            /\ \A i \in 1..Len(ret), j \in 1..Len(ret) :
                  /\ i # j => call.rows[i] # call.rows[j]
                  /\ i < j => ret[i].obs_date >= ret[j].obs_date
            /\ \A r \in stored : (\A i \in 1..Len(ret) : call.rows[i] # r) =>
                  \A i \in 1..Len(ret) : ret[i].obs_date >= r.obs_date

\* C22 witness: the limit cuts a metric's rows where another metric has rows too
C22_Witness ==
    /\ call.op = "get_latest_observations"
    /\ call.arg = <<"m1", 1>>
    /\ Cardinality({r \in observations : r.metric_id = "m1"}) = 2
    /\ \E r \in observations : r.metric_id = "m2"
    /\ call.ret[1].obs_date = 2

Rendering == pc \in {"generate", "render_metrics", "render_feeds"}

ReadFunctions == {"get_all_metric_meta", "get_latest_observations", "get_stories_by_feed"}

\* C23: no step of generate_dashboard changes a row of observations, stories or
\* metrics, and every storage call it makes is one of the three read functions.
C23_RenderOnlyReads ==
    [][Rendering => /\ UNCHANGED <<observations, stories, metrics>>
                    /\ call' # call => call'.op \in ReadFunctions]_vars

\* C23 witness: a --gen-only run has rendered a store that an earlier run filled
C23_Witness ==
    /\ pc = "done"
    /\ args = Args(TRUE, FALSE)
    /\ call.op = "get_stories_by_feed"
    /\ Len(call.ret) > 0
    /\ metrics # {}
    /\ observations # {}

---------------------------------------------------------------------------
(* Claims about the limit and the pool of the index-then-detail connector *)

\* C24 (as claimed): for every configured limit, 0 included, the identifiers
\* submitted for resolution are the first ones of the index, no more than the
\* limit, and no more stories than the limit are returned.
C24_AtMostLimit ==
    (frame.connector = "hn_firebase" /\ frame.index = "ok") =>
        /\ Len(futures) <= frame.config.limit
        /\ Len(frame.stories) <= frame.config.limit
        /\ Len(frame.result.data) <= frame.config.limit

\* C25: at every moment at most max_workers resolutions are executing, and a
\* queued resolution starts only when fewer than max_workers are executing.
C25_BoundedConcurrency ==
    /\ [](Cardinality(Running) <= MaxWorkers)
    /\ [][\A i \in 1..Len(futures) :
            (Len(futures') = Len(futures)
             /\ futures[i].state = "pending" /\ futures'[i].state = "running")
                => Cardinality(Running) < MaxWorkers]_vars

\* C25 witness: more resolutions were submitted than there are workers; every
\* worker is busy and the last submitted resolution is waiting
C25_Witness ==
    /\ cpc = "pool"
    /\ Len(futures) > MaxWorkers
    /\ Cardinality(Running) = MaxWorkers
    /\ futures[Len(futures)].state = "pending"

---------------------------------------------------------------------------
(* Claims about what the code implies without the specification saying it *)

FeedIds == {FeedOf[src] : src \in FeedSources}

\* the feeds under which get_stories_by_feed(feed_id, limit) can list a story
ListedUnder(id, limit) ==
    {feed_id \in FeedIds :
        \E q \in select_stories_by_feed(stories, feed_id, limit) :
            \E i \in 1..Len(q) : q[i].id = id}

\* C26: the upsert_story that inserts an id gives the row its feed_id and
\* source; an upsert_story that finds the id stored changes neither; and
\* get_stories_by_feed lists a stored id under its row's feed_id and under no
\* other, whatever the limit.
C26_FeedOfFirstUpsert ==
    /\ [][Returned("upsert_story") =>
            \A r2 \in stories' : r2.id = call'.arg.id =>
                IF \E r \in stories : r.id = r2.id
                THEN \A r \in stories : r.id = r2.id =>
                        (r2.feed_id = r.feed_id /\ r2.source = r.source)
                ELSE r2.feed_id = call'.arg.feed_id /\ r2.source = call'.arg.source]_vars
    /\ [](\A r \in stories :
            /\ \A limit \in 0..Cardinality(stories) : ListedUnder(r.id, limit) \subseteq {r.feed_id}
            /\ ListedUnder(r.id, Cardinality(stories)) = {r.feed_id})

\* C26 witness: a story stored by one feed has been upserted by the other feed,
\* which refreshed its score
C26_Witness ==
    /\ call.op = "upsert_story" /\ ~call.raised
    /\ \E r \in stories :
          /\ r.id = call.arg.id
          /\ r.feed_id # call.arg.feed_id
          /\ r.source # call.arg.source
          /\ r.score = call.arg.score
          /\ r.title # call.arg.title
          /\ ListedUnder(r.id, 1) = {r.feed_id}
          /\ Cardinality(stories) = 2

Stored(obs) ==
    \E r \in observations : ObsKey(r) = ObsKey(obs) /\ r.value = obs.value

\* C27: while a batch is being stored, the observations before the current one
\* are in the store; when upsert_observation raises on the current one, that
\* step changes no row of observations or metrics, and the run goes to the next
\* configured metric without another upsert or snapshot update for this batch.
C27_BatchNotAtomic ==
    /\ [](pc = "metric_store" => \A j \in 1..(bpos - 1) : Stored(batch[j]))
    /\ [][(pc = "metric_store" /\ bpos <= Len(batch)
           /\ call'.op = "upsert_observation" /\ call'.raised) =>
              /\ UNCHANGED <<observations, metrics, batch, bpos>>
              /\ \A j \in 1..(bpos - 1) : Stored(batch[j])
              /\ pc' = "fetch_metrics"
              /\ pos' = pos + 1
              /\ trace' = Append(trace, "failed")]_vars
    /\ [][(pc = "fetch_metrics" /\ pc' = "metric_store") => bpos' = 1]_vars

\* C27 witness: the second upsert of the first metric's batch has failed; its
\* first observation is stored, its second is not, the metric has no snapshot
\* row, and the run is at the next configured metric
C27_Witness ==
    /\ pc = "fetch_metrics"
    /\ pos = 2
    /\ pos <= Len(metrics_config)
    /\ trace = <<"failed">>
    /\ call.op = "upsert_observation" /\ call.raised
    /\ Len(batch) = 2
    /\ bpos = 2
    /\ Stored(batch[1])
    /\ ~Stored(batch[2])
    /\ \A r \in metrics : r.id # batch[1].metric_id

\* the stories upsert_story has stored during the feed pass of this run
Refreshed == {batch[j].id : j \in 1..Min(bpos - 1, Len(batch))}

\* C28: the purge that ends a run, with the window of 7 days, deletes no story
\* that upsert_story inserted or refreshed during the feed pass of that run.
C28_RefreshedNotPurged ==
    [][(pc = "fetch_feeds" /\ pos > Len(feeds_config) /\ pc' # pc) =>
          /\ call'.op = "cleanup_old_stories"
          /\ \A id \in Refreshed : \E r \in stories : r.id = id
          /\ \A id \in Refreshed : \E r \in stories' : r.id = id]_vars

\* C28 witness: the purge of the second run has deleted a story that the feed
\* no longer returned and has kept the one refreshed earlier in that run
C28_Witness ==
    /\ pc = "done"
    /\ runs = 2
    /\ call.op = "cleanup_old_stories" /\ ~call.raised
    /\ call.ret > 0
    /\ bpos > 1
    /\ \E r \in stories :
          /\ r.id = batch[1].id
          /\ r.title # batch[1].title
          /\ r.score = batch[1].score

====
